---- MODULE Spec2Model ----
(***************************************************************************)
(* A model of libcni's chain driver (src/libcni/api.go): AddNetworkList,   *)
(* CheckNetworkList and DelNetworkList over a list of plugin               *)
(* configurations, the derived document built for every plugin dispatch,   *)
(* the two plugin transports (local exec and gRPC) and the on-disk result  *)
(* cache.                                                                  *)
(*                                                                         *)
(* A call of the driver made on its own is one atomic step: the driver is  *)
(* sequential and keeps no state between calls apart from the cache.  What *)
(* a call did (its dispatches, its cache operations, what it returned) is  *)
(* recorded in the variable call, so that properties of one call are       *)
(* invariants and properties of two consecutive calls are action           *)
(* properties.  Calls made at the same time by several callers are         *)
(* modelled step by step in SpecConcurrent.                                *)
(***************************************************************************)
EXTENDS Integers, Sequences, FiniteSets, TLC

\* Longest plugin chain of a list.
MaxPlugins == 2

----------------------------------------------------------------------------
(* Versions.  A version string "a.b.c" is the tuple <<a, b, c>>; BadVersion *)
(* is a string that does not parse as a version.                            *)

BadVersion == <<>>
V020 == <<0, 2, 0>>
V031 == <<0, 3, 1>>
V040 == <<0, 4, 0>>

\* The versions the version registry can build a result for.
SupportedVersions == {V020, V031, V040}

\* The transitions <<from, to>> the version registry has a converter for: a
\* result of the current format is expressed in any supported version, a
\* result of the 0.2.0 format has no converter.
Conversions == {V031, V040} \X SupportedVersions

\* version.GreaterThanOrEqualTo(version, otherVersion): (bool, error)
GreaterThanOrEqualTo(version, otherVersion) ==
    IF Len(version) # 3 \/ Len(otherVersion) # 3
    THEN [gtet |-> FALSE, err |-> "version_parse"]
    ELSE [gtet |-> \/ version[1] > otherVersion[1]
                   \/ version[1] = otherVersion[1] /\ version[2] > otherVersion[2]
                   \/ version[1] = otherVersion[1] /\ version[2] = otherVersion[2]
                      /\ version[3] >= otherVersion[3],
          err |-> "none"]

----------------------------------------------------------------------------
(* Results.  A result is its version and its opaque content; the bytes of  *)
(* a result (json.Marshal) carry the same two, so one record stands for    *)
(* both.  NoResult is the nil types.Result, NoBytes the empty byte string. *)

Payloads == {"r1", "r2"}
NoResult == [cniVersion |-> BadVersion, data |-> "nil"]
NoBytes == [cniVersion |-> BadVersion, data |-> "empty"]

\* version.NewResult(version, bytes): (Result, error)
NewResult(version, bytes) ==
    IF version \notin SupportedVersions
    THEN [result |-> NoResult, err |-> "unsupported_version"]
    ELSE IF bytes = NoBytes
    THEN [result |-> NoResult, err |-> "malformed_result"]
    ELSE [result |-> bytes, err |-> "none"]

\* result.GetAsVersion(version): (Result, error)
GetAsVersion(result, version) ==
    IF <<result.cniVersion, version>> \in Conversions
    THEN [result |-> [result EXCEPT !.cniVersion = version], err |-> "none"]
    ELSE [result |-> NoResult, err |-> "unsupported_conversion"]

\* version.ConfigDecoder.Decode(bytes): the cniVersion field of a document
Decode(bytes) == bytes.cniVersion

----------------------------------------------------------------------------
(* Configuration documents.  A document is the set of its top-level keys   *)
(* and the value of each; a key that is absent has its zero value.         *)
(* capabilities and runtimeConfig are maps, written as sets of             *)
(* <<key, value>> pairs.                                                   *)

EmptyDoc ==
    [keys |-> {}, name |-> <<>>, cniVersion |-> BadVersion, type |-> <<>>,
     capabilities |-> {}, prevResult |-> NoResult, runtimeConfig |-> {}]

\* InjectConf(original, newValues): the keys of newValues set at top level
InjectConf(original, newValues) ==
    [keys |-> original.keys \cup newValues.keys,
     name |-> IF "name" \in newValues.keys THEN newValues.name ELSE original.name,
     cniVersion |-> IF "cniVersion" \in newValues.keys
                    THEN newValues.cniVersion ELSE original.cniVersion,
     type |-> IF "type" \in newValues.keys THEN newValues.type ELSE original.type,
     capabilities |-> IF "capabilities" \in newValues.keys
                      THEN newValues.capabilities ELSE original.capabilities,
     prevResult |-> IF "prevResult" \in newValues.keys
                    THEN newValues.prevResult ELSE original.prevResult,
     runtimeConfig |-> IF "runtimeConfig" \in newValues.keys
                       THEN newValues.runtimeConfig ELSE original.runtimeConfig]

\* injectRuntimeConfig without the test of the capability's value
injectRuntimeConfig_AnyDeclared(orig, rt) ==
    LET rc == {kv \in rt.CapabilityArgs :
                  \E c \in orig.capabilities : c[1] = kv[1]}
    IN  IF Cardinality(rc) > 0
        THEN InjectConf(orig, [EmptyDoc EXCEPT !.keys = {"runtimeConfig"},
                                               !.runtimeConfig = rc])
        ELSE orig

\* injectRuntimeConfig(orig, rt)
injectRuntimeConfig(orig, rt) ==
    LET rc == {kv \in rt.CapabilityArgs : <<kv[1], TRUE>> \in orig.capabilities}
    IN  IF Cardinality(rc) > 0
        THEN InjectConf(orig, [EmptyDoc EXCEPT !.keys = {"runtimeConfig"},
                                               !.runtimeConfig = rc])
        ELSE orig

\* buildOneConfig with the arguments of InjectConf exchanged: the keys of the
\* plugin's own document win
buildOneConfig_OwnKeysWin(name, cniVersion, orig, prevResult, rt) ==
    LET inject == [EmptyDoc EXCEPT
                     !.keys = {"name", "cniVersion"}
                              \cup (IF prevResult # NoResult THEN {"prevResult"} ELSE {}),
                     !.name = name,
                     !.cniVersion = cniVersion,
                     !.prevResult = prevResult]
    IN  injectRuntimeConfig(InjectConf(inject, orig), rt)

\* buildOneConfig(name, cniVersion, orig, prevResult, rt)
buildOneConfig(name, cniVersion, orig, prevResult, rt) ==
    LET inject == [EmptyDoc EXCEPT
                     !.keys = {"name", "cniVersion"}
                              \cup (IF prevResult # NoResult THEN {"prevResult"} ELSE {}),
                     !.name = name,
                     !.cniVersion = cniVersion,
                     !.prevResult = prevResult]
    IN  injectRuntimeConfig(InjectConf(orig, inject), rt)

----------------------------------------------------------------------------
(* The result cache: a file per path, NoFile where there is none.          *)

CacheDir == <<"/var/lib/cni">>
NoFile == [cniVersion |-> BadVersion, data |-> "nofile"]

\* getResultCacheFilePath in which the containers of a network share the
\* file of container "1"
getResultCacheFilePath_SharedByContainers(netName, rt) ==
    LET cacheDir == IF rt.CacheDir = <<>> THEN CacheDir ELSE rt.CacheDir
    IN  cacheDir \o <<"/results/">> \o netName \o <<"-">> \o <<"1">>
                 \o <<"-">> \o rt.IfName

\* getResultCacheFilePath(netName, rt)
getResultCacheFilePath(netName, rt) ==
    LET cacheDir == IF rt.CacheDir = <<>> THEN CacheDir ELSE rt.CacheDir
    IN  cacheDir \o <<"/results/">> \o netName \o <<"-">> \o rt.ContainerID
                 \o <<"-">> \o rt.IfName

\* setCachedResult that creates the file but does not write over one
setCachedResult_KeepsExisting(files, result, netName, rt, wr) ==
    IF wr = "ok"
    THEN [files |-> IF files[getResultCacheFilePath(netName, rt)] = NoFile
                    THEN [files EXCEPT ![getResultCacheFilePath(netName, rt)] = result]
                    ELSE files,
          err |-> "none"]
    ELSE [files |-> files, err |-> "write_failed"]

\* setCachedResult(result, netName, rt); wr is whether the file system lets
\* the directory be made and the file be written.
setCachedResult(files, result, netName, rt, wr) ==
    IF wr = "ok"
    THEN [files |-> [files EXCEPT ![getResultCacheFilePath(netName, rt)] = result],
          err |-> "none"]
    ELSE [files |-> files, err |-> "write_failed"]

\* delCachedResult that removes nothing
delCachedResult_LeavesFile(files, netName, rt, rm) ==
    [files |-> files,
     err |-> IF files[getResultCacheFilePath(netName, rt)] = NoFile
             THEN "not_exist" ELSE "none"]

\* delCachedResult(netName, rt): os.Remove; rm is whether the file system
\* lets an existing file be removed.
delCachedResult(files, netName, rt, rm) ==
    LET fname == getResultCacheFilePath(netName, rt)
    IN  IF files[fname] = NoFile THEN [files |-> files, err |-> "not_exist"]
        ELSE IF rm = "ok" THEN [files |-> [files EXCEPT ![fname] = NoFile], err |-> "none"]
        ELSE [files |-> files, err |-> "remove_failed"]

\* getCachedResult that returns the read error of a missing file
getCachedResult_MissingIsError(files, netName, cniVersion, rt) ==
    LET data == files[getResultCacheFilePath(netName, rt)]
        resultCniVersion == Decode(data)
        parsed == NewResult(resultCniVersion, data)
        conv == GetAsVersion(parsed.result, cniVersion)
    IN  IF data = NoFile THEN [result |-> NoResult, err |-> "read_failed"]
        ELSE IF parsed.err # "none" THEN [result |-> NoResult, err |-> parsed.err]
        ELSE IF conv.err # "none" /\ resultCniVersion # cniVersion
        THEN [result |-> NoResult, err |-> "convert_failed"]
        ELSE conv

\* getCachedResult that takes a file it cannot decode for a missing one
getCachedResult_UndecodableIsMissing(files, netName, cniVersion, rt) ==
    LET data == files[getResultCacheFilePath(netName, rt)]
        resultCniVersion == Decode(data)
        parsed == NewResult(resultCniVersion, data)
        conv == GetAsVersion(parsed.result, cniVersion)
    IN  IF data = NoFile THEN [result |-> NoResult, err |-> "none"]
        ELSE IF parsed.err # "none" THEN [result |-> NoResult, err |-> "none"]
        ELSE IF conv.err # "none" /\ resultCniVersion # cniVersion
        THEN [result |-> NoResult, err |-> "none"]
        ELSE conv

\* getCachedResult(netName, cniVersion, rt): (Result, error)
getCachedResult(files, netName, cniVersion, rt) ==
    LET data == files[getResultCacheFilePath(netName, rt)]
        resultCniVersion == Decode(data)
        parsed == NewResult(resultCniVersion, data)
        conv == GetAsVersion(parsed.result, cniVersion)
    IN  IF data = NoFile THEN [result |-> NoResult, err |-> "none"]
        ELSE IF parsed.err # "none" THEN [result |-> NoResult, err |-> parsed.err]
        ELSE IF conv.err # "none" /\ resultCniVersion # cniVersion
        THEN [result |-> NoResult, err |-> "convert_failed"]
        ELSE conv

----------------------------------------------------------------------------
(* Inputs of a call: lists, runtime configurations, and what the plugins   *)
(* and the file system do during the call.                                 *)

\* The plugin at position i of a chain; its own name and version are not
\* those of any list.
PluginConf(i) ==
    [EmptyDoc EXCEPT
       !.keys = {"name", "cniVersion", "type", "capabilities"},
       !.name = <<"own">>,
       !.cniVersion = IF i % 2 = 1 THEN V040 ELSE V031,
       !.type = <<"plugin", i>>,
       !.capabilities = IF i % 3 = 1
                        THEN {<<"portMappings", TRUE>>, <<"bandwidth", FALSE>>}
                        ELSE IF i % 3 = 2
                        THEN {<<"bandwidth", FALSE>>}
                        ELSE {<<"ipRanges", TRUE>>, <<"portMappings", TRUE>>}]

NetNames == {<<"net1">>}
ListVersions == {V031, V040}

\* NetworkConfigList: the lists of every name, version and length, and one
\* list whose version does not parse.
Lists(disable) ==
    {[Name |-> n, CNIVersion |-> v, DisableCheck |-> d,
      Plugins |-> [i \in 1..k |-> PluginConf(i)]] :
        n \in NetNames, v \in ListVersions, d \in disable, k \in 1..MaxPlugins}
    \cup {[Name |-> n, CNIVersion |-> BadVersion, DisableCheck |-> FALSE,
           Plugins |-> <<PluginConf(1)>>] : n \in NetNames}

CapabilityArgSets ==
    {{}, {<<"portMappings", "pm">>, <<"ipRanges", "ir">>, <<"bandwidth", "bw">>}}

\* RuntimeConf
Runtimes ==
    {[ContainerID |-> <<"c1">>, NetNS |-> <<"/ns">>, IfName |-> <<"eth0">>,
      Args |-> <<<<"K", "V">>>>, CapabilityArgs |-> ca, CacheDir |-> <<>>] :
        ca \in CapabilityArgSets}

Paths == {getResultCacheFilePath(n, rt) : n \in NetNames, rt \in Runtimes}

\* What one plugin does when dispatched: it is not on the search path, the
\* transport to it fails, it reports an error, or it succeeds (an ADD then
\* prints a result).
FailKinds == {"not_found", "transport_error", "plugin_error"}
Fail(kind) == [kind |-> kind, data |-> "none"]
Ok(data) == [kind |-> "ok", data |-> data]
AddOutcomes == {Ok(d) : d \in Payloads} \cup {Fail(k) : k \in FailKinds}
Outcomes == {Ok("none")} \cup {Fail(k) : k \in FailKinds}

\* What the plugins of a chain of n plugins do.  A plugin that comes after
\* the walk has stopped is asked nothing, so one choice for it (rest) stands
\* for all; stop is the kinds of outcome that stop the walk.
Chains(outcomes, n, stop, rest) ==
    {oc \in [1..n -> outcomes] :
        \A i \in 1..n : \A j \in 1..(i - 1) : oc[j].kind \in stop => oc[i] = rest}

\* A plugin's error stops every walk but the CHECK and DEL walks over gRPC,
\* where the error is in the reply and the reply's error is not read.
StopKinds(grpc) == IF grpc THEN {"not_found", "transport_error"} ELSE FailKinds

\* The file system is asked to write or remove only by a walk that reached
\* the end of the chain.
FsOutcomes(oc) ==
    IF \A i \in DOMAIN oc : oc[i].kind \notin {"not_found", "transport_error"}
    THEN {"ok", "fail"} ELSE {"ok"}

----------------------------------------------------------------------------
(* The plugin transports.  A dispatch is recorded with the command, the    *)
(* plugin, the derived document, the runtime inputs that go with it (req)  *)
(* and what the plugin did.  A string is the sequence of its parts.        *)

\* stringFromArgs(pairs): "k1=v1;k2=v2;"
RECURSIVE stringFromArgs(_)
stringFromArgs(pairs) ==
    IF pairs = <<>> THEN <<>>
    ELSE <<pairs[1][1], "=", pairs[1][2], ";">> \o stringFromArgs(Tail(pairs))

\* c.args(action, rt): the invoke.Args of the exec transport
args(action, rt) ==
    [Command |-> action, ContainerID |-> rt.ContainerID, NetNS |-> rt.NetNS,
     PluginArgs |-> rt.Args, IfName |-> rt.IfName]

\* invoke.Args as the environment of the plugin: CNI_COMMAND,
\* CNI_CONTAINERID, CNI_NETNS, CNI_IFNAME and CNI_ARGS, the pairs joined as
\* "k1=v1;k2=v2;"
AsEnv(a) ==
    [transport |-> "exec", Command |-> a.Command, ContainerID |-> a.ContainerID,
     NetNS |-> a.NetNS, IfName |-> a.IfName, CniArgs |-> stringFromArgs(a.PluginArgs)]

\* The keys the CNIcapArgs message has a field for
CNIcapArgsFields == {"portMappings", "ipRanges", "bandwidth"}

\* json.Marshal of the runtime's capability args, then json.Unmarshal into
\* a CNIcapArgs: the entries the message has a field for
CNIcapArgs(capabilityArgs) ==
    {kv \in capabilityArgs : kv[1] \in CNIcapArgsFields}

\* CNIaddMsg, CNIcheckMsg, CNIdelMsg as gRPCsendAdd, gRPCsendCheck and
\* gRPCsendDel fill them: no field is given to ContainerID
CNIMsg(cmd, netns, ifName, cniArgs, capArgs) ==
    [transport |-> "grpc", Command |-> cmd, ContainerID |-> <<>>, NetNS |-> netns,
     IfName |-> ifName, CniArgs |-> cniArgs, CapArgs |-> capArgs]

\* What addNetwork, checkNetwork and delNetwork hand to the transport
Request(grpc, cmd, rt) ==
    LET capabilityArgs == CNIcapArgs(rt.CapabilityArgs)
        cniArgs == IF Len(rt.Args) > 0 THEN stringFromArgs(rt.Args) ELSE <<>>
    IN  IF ~grpc THEN AsEnv(args(cmd, rt))
        ELSE CNIMsg(cmd, rt.NetNS, rt.IfName, cniArgs, capabilityArgs)

Dispatch(cmd, net, newConf, req, out) ==
    [cmd |-> cmd, type |-> net.type, conf |-> newConf, req |-> req, out |-> out]

\* The bytes a plugin prints on a successful ADD: a result in the version of
\* the document it was handed.
StdOut(newConf, out) == [cniVersion |-> newConf.cniVersion, data |-> out.data]

\* invoke.ExecPluginWithResult
ExecPluginWithResult(newConf, out) ==
    IF out.kind = "ok"
    THEN NewResult(Decode(newConf), StdOut(newConf, out))
    ELSE [result |-> NoResult, err |-> out.kind]

\* invoke.ExecPluginWithoutResult
ExecPluginWithoutResult(newConf, out) ==
    IF out.kind = "ok" THEN "none" ELSE out.kind

\* The server's reply to CNIadd, CNIcheck or CNIdel: the RPC itself fails, or
\* it carries the plugin's output or the plugin's error.
Reply(newConf, out) ==
    [rpcErr |-> out.kind = "transport_error",
     StdOut |-> IF out.kind = "ok" THEN StdOut(newConf, out) ELSE NoBytes,
     Error |-> IF out.kind = "plugin_error" THEN "plugin_error" ELSE ""]

\* gRPCsendAdd: log.Fatalf on an RPC error ends the process
gRPCsendAdd(newConf, out) ==
    LET resultAdd == Reply(newConf, out)
    IN  IF resultAdd.rpcErr
        THEN [fatal |-> TRUE, err |-> "transport_error", resultString |-> NoBytes]
        ELSE [fatal |-> FALSE, err |-> "none", resultString |-> resultAdd.StdOut]

\* gRPCsendCheck
gRPCsendCheck(newConf, out) ==
    LET resultCheck == Reply(newConf, out)
    IN  IF resultCheck.rpcErr
        THEN [fatal |-> TRUE, err |-> "transport_error"]
        ELSE [fatal |-> FALSE, err |-> "none"]

\* gRPCsendDel
gRPCsendDel(newConf, out) ==
    LET resultDel == Reply(newConf, out)
    IN  IF resultDel.rpcErr
        THEN [fatal |-> TRUE, err |-> "transport_error"]
        ELSE [fatal |-> FALSE, err |-> "none"]

----------------------------------------------------------------------------
(* The chain driver.  Every handler is computed from the CNIConfig's       *)
(* transport (grpc is ClientgRPC), the cache files, the call's arguments   *)
(* and what the plugins and the file system do; it yields the dispatches   *)
(* made (log), the cache operations made (ops), what is returned (result,  *)
(* err), whether the process was ended by log.Fatalf (exited) and the      *)
(* cache files it leaves.                                                  *)

\* addNetwork
addNetwork(grpc, name, cniVersion, net, prevResult, rt, out) ==
    LET newConf == buildOneConfig(name, cniVersion, net, prevResult, rt)
        sent == <<Dispatch("ADD", net, newConf, Request(grpc, "ADD", rt), out)>>
        exec == ExecPluginWithResult(newConf, out)
        rpc == gRPCsendAdd(newConf, out)
        parsed == NewResult(Decode(newConf), rpc.resultString)
    IN  IF out.kind = "not_found"
        THEN [log |-> <<>>, result |-> NoResult, err |-> "not_found", exited |-> FALSE]
        ELSE IF ~grpc
        THEN [log |-> sent, result |-> exec.result, err |-> exec.err, exited |-> FALSE]
        ELSE IF rpc.fatal
        THEN [log |-> sent, result |-> NoResult, err |-> rpc.err, exited |-> TRUE]
        ELSE [log |-> sent, result |-> parsed.result, err |-> parsed.err, exited |-> FALSE]

\* checkNetwork
checkNetwork(grpc, name, cniVersion, net, prevResult, rt, out) ==
    LET newConf == buildOneConfig(name, cniVersion, net, prevResult, rt)
        sent == <<Dispatch("CHECK", net, newConf, Request(grpc, "CHECK", rt), out)>>
        rpc == gRPCsendCheck(newConf, out)
    IN  IF out.kind = "not_found"
        THEN [log |-> <<>>, err |-> "not_found", exited |-> FALSE]
        ELSE IF ~grpc
        THEN [log |-> sent, err |-> ExecPluginWithoutResult(newConf, out), exited |-> FALSE]
        ELSE [log |-> sent, err |-> rpc.err, exited |-> rpc.fatal]

\* delNetwork
delNetwork(grpc, name, cniVersion, net, prevResult, rt, out) ==
    LET newConf == buildOneConfig(name, cniVersion, net, prevResult, rt)
        sent == <<Dispatch("DEL", net, newConf, Request(grpc, "DEL", rt), out)>>
        rpc == gRPCsendDel(newConf, out)
    IN  IF out.kind = "not_found"
        THEN [log |-> <<>>, err |-> "not_found", exited |-> FALSE]
        ELSE IF ~grpc
        THEN [log |-> sent, err |-> ExecPluginWithoutResult(newConf, out), exited |-> FALSE]
        ELSE [log |-> sent, err |-> rpc.err, exited |-> rpc.fatal]

\* A cache operation of a call: the error it gave and whether the file of
\* the triple existed when it was made
CacheOp(op, err, found) == [op |-> op, err |-> err, found |-> found]

Exists(files, netName, rt) == files[getResultCacheFilePath(netName, rt)] # NoFile

Returned(log, ops, result, err, exited, files) ==
    [log |-> log, ops |-> ops, result |-> result, err |-> err, exited |-> exited,
     files |-> files]

\* AddNetworkList: the loop from plugin i on, then the cache write
RECURSIVE AddNetworkListFrom(_, _, _, _, _, _, _, _, _)
AddNetworkListFrom(grpc, files, list, rt, oc, wr, i, result, log) ==
    IF i > Len(list.Plugins)
    THEN LET set == setCachedResult(files, result, list.Name, rt, wr)
             found == Exists(files, list.Name, rt)
         IN  IF set.err # "none"
             THEN Returned(log, <<CacheOp("set", set.err, found)>>, NoResult,
                           "cache_set_failed", FALSE, set.files)
             ELSE Returned(log, <<CacheOp("set", "none", found)>>, result, "none",
                           FALSE, set.files)
    ELSE LET r == addNetwork(grpc, list.Name, list.CNIVersion, list.Plugins[i],
                             result, rt, oc[i])
         IN  IF r.err # "none"
             THEN Returned(log \o r.log, <<>>, NoResult, r.err, r.exited, files)
             ELSE AddNetworkListFrom(grpc, files, list, rt, oc, wr, i + 1,
                                     r.result, log \o r.log)

\* AddNetworkList that starts the chain from the cached result
AddNetworkList_StartsFromCache(grpc, files, list, rt, oc, wr) ==
    AddNetworkListFrom(grpc, files, list, rt, oc, wr, 1,
                       getCachedResult(files, list.Name, list.CNIVersion, rt).result,
                       <<>>)

\* AddNetworkList that returns success when the cache write failed
AddNetworkList_IgnoresWriteFailure(grpc, files, list, rt, oc, wr) ==
    LET r == AddNetworkListFrom(grpc, files, list, rt, oc, wr, 1, NoResult, <<>>)
    IN  IF r.err = "cache_set_failed" THEN [r EXCEPT !.err = "none"] ELSE r

\* AddNetworkList
AddNetworkList(grpc, files, list, rt, oc, wr) ==
    AddNetworkListFrom(grpc, files, list, rt, oc, wr, 1, NoResult, <<>>)

\* CheckNetworkList: the loop from plugin i on
RECURSIVE CheckNetworkListFrom(_, _, _, _, _, _, _, _)
CheckNetworkListFrom(grpc, files, list, rt, oc, cachedResult, i, log) ==
    IF i > Len(list.Plugins)
    THEN Returned(log, <<CacheOp("get", "none", Exists(files, list.Name, rt))>>,
                  NoResult, "none", FALSE, files)
    ELSE LET r == checkNetwork(grpc, list.Name, list.CNIVersion, list.Plugins[i],
                               cachedResult, rt, oc[i])
         IN  IF r.err # "none"
             THEN Returned(log \o r.log,
                           <<CacheOp("get", "none", Exists(files, list.Name, rt))>>,
                           NoResult, r.err, r.exited, files)
             ELSE CheckNetworkListFrom(grpc, files, list, rt, oc, cachedResult,
                                       i + 1, log \o r.log)

\* CheckNetworkList with the version test the wrong way round
CheckNetworkList_GateInverted(grpc, files, list, rt, oc) ==
    LET gate == GreaterThanOrEqualTo(list.CNIVersion, V040)
        cached == getCachedResult(files, list.Name, list.CNIVersion, rt)
    IN  IF gate.err # "none"
        THEN Returned(<<>>, <<>>, NoResult, gate.err, FALSE, files)
        ELSE IF gate.gtet
        THEN Returned(<<>>, <<>>, NoResult, "check_unsupported", FALSE, files)
        ELSE IF list.DisableCheck
        THEN Returned(<<>>, <<>>, NoResult, "none", FALSE, files)
        ELSE IF cached.err # "none"
        THEN Returned(<<>>, <<CacheOp("get", cached.err, Exists(files, list.Name, rt))>>,
                      NoResult, "cache_get_failed", FALSE, files)
        ELSE CheckNetworkListFrom(grpc, files, list, rt, oc, cached.result, 1, <<>>)

\* CheckNetworkList with DisableCheck looked at before the version
CheckNetworkList_DisableCheckFirst(grpc, files, list, rt, oc) ==
    LET gate == GreaterThanOrEqualTo(list.CNIVersion, V040)
        cached == getCachedResult(files, list.Name, list.CNIVersion, rt)
    IN  IF list.DisableCheck
        THEN Returned(<<>>, <<>>, NoResult, "none", FALSE, files)
        ELSE IF gate.err # "none"
        THEN Returned(<<>>, <<>>, NoResult, gate.err, FALSE, files)
        ELSE IF ~gate.gtet
        THEN Returned(<<>>, <<>>, NoResult, "check_unsupported", FALSE, files)
        ELSE IF cached.err # "none"
        THEN Returned(<<>>, <<CacheOp("get", cached.err, Exists(files, list.Name, rt))>>,
                      NoResult, "cache_get_failed", FALSE, files)
        ELSE CheckNetworkListFrom(grpc, files, list, rt, oc, cached.result, 1, <<>>)

\* CheckNetworkList that removes the cache entry once the plugins have been
\* asked
CheckNetworkList_ConsumesEntry(grpc, files, list, rt, oc) ==
    LET gate == GreaterThanOrEqualTo(list.CNIVersion, V040)
        cached == getCachedResult(files, list.Name, list.CNIVersion, rt)
        r == CheckNetworkListFrom(grpc, files, list, rt, oc, cached.result, 1, <<>>)
    IN  IF gate.err # "none"
        THEN Returned(<<>>, <<>>, NoResult, gate.err, FALSE, files)
        ELSE IF ~gate.gtet
        THEN Returned(<<>>, <<>>, NoResult, "check_unsupported", FALSE, files)
        ELSE IF list.DisableCheck
        THEN Returned(<<>>, <<>>, NoResult, "none", FALSE, files)
        ELSE IF cached.err # "none"
        THEN Returned(<<>>, <<CacheOp("get", cached.err, Exists(files, list.Name, rt))>>,
                      NoResult, "cache_get_failed", FALSE, files)
        ELSE [r EXCEPT !.files = delCachedResult(files, list.Name, rt, "ok").files]

\* CheckNetworkList
CheckNetworkList(grpc, files, list, rt, oc) ==
    LET gate == GreaterThanOrEqualTo(list.CNIVersion, V040)
        cached == getCachedResult(files, list.Name, list.CNIVersion, rt)
    IN  IF gate.err # "none"
        THEN Returned(<<>>, <<>>, NoResult, gate.err, FALSE, files)
        ELSE IF ~gate.gtet
        THEN Returned(<<>>, <<>>, NoResult, "check_unsupported", FALSE, files)
        ELSE IF list.DisableCheck
        THEN Returned(<<>>, <<>>, NoResult, "none", FALSE, files)
        ELSE IF cached.err # "none"
        THEN Returned(<<>>, <<CacheOp("get", cached.err, Exists(files, list.Name, rt))>>,
                      NoResult, "cache_get_failed", FALSE, files)
        ELSE CheckNetworkListFrom(grpc, files, list, rt, oc, cached.result, 1, <<>>)

\* DelNetworkList: the loop from plugin i down, then the cache removal
RECURSIVE DelNetworkListFrom(_, _, _, _, _, _, _, _, _, _)
DelNetworkListFrom(grpc, files, list, rt, oc, rm, cachedResult, ops, i, log) ==
    IF i < 1
    THEN LET del == delCachedResult(files, list.Name, rt, rm)
         IN  Returned(log,
                      Append(ops, CacheOp("del", del.err, Exists(files, list.Name, rt))),
                      NoResult, "none", FALSE, del.files)
    ELSE LET r == delNetwork(grpc, list.Name, list.CNIVersion, list.Plugins[i],
                             cachedResult, rt, oc[i])
         IN  IF r.err # "none"
             THEN Returned(log \o r.log, ops, NoResult, r.err, r.exited, files)
             ELSE DelNetworkListFrom(grpc, files, list, rt, oc, rm, cachedResult,
                                     ops, i - 1, log \o r.log)

\* DelNetworkList that walks the plugins in list order
DelNetworkList_ListOrder(grpc, files, list, rt, oc, rm) ==
    LET n == Len(list.Plugins)
        turned == [list EXCEPT !.Plugins = [i \in 1..n |-> list.Plugins[n + 1 - i]]]
        gate == GreaterThanOrEqualTo(list.CNIVersion, V040)
        cached == getCachedResult(files, list.Name, list.CNIVersion, rt)
    IN  IF gate.err # "none"
        THEN Returned(<<>>, <<>>, NoResult, gate.err, FALSE, files)
        ELSE IF gate.gtet /\ cached.err # "none"
        THEN Returned(<<>>, <<CacheOp("get", cached.err, Exists(files, list.Name, rt))>>,
                      NoResult, "cache_get_failed", FALSE, files)
        ELSE DelNetworkListFrom(grpc, files, turned, rt,
                                [i \in 1..n |-> oc[n + 1 - i]], rm,
                                IF gate.gtet THEN cached.result ELSE NoResult,
                                IF gate.gtet
                                THEN <<CacheOp("get", "none", Exists(files, list.Name, rt))>>
                                ELSE <<>>,
                                n, <<>>)

\* DelNetworkList that reads the cache whatever the version of the list
DelNetworkList_AlwaysReadsCache(grpc, files, list, rt, oc, rm) ==
    LET gate == GreaterThanOrEqualTo(list.CNIVersion, V040)
        cached == getCachedResult(files, list.Name, list.CNIVersion, rt)
    IN  IF gate.err # "none"
        THEN Returned(<<>>, <<>>, NoResult, gate.err, FALSE, files)
        ELSE IF cached.err # "none"
        THEN Returned(<<>>, <<CacheOp("get", cached.err, Exists(files, list.Name, rt))>>,
                      NoResult, "cache_get_failed", FALSE, files)
        ELSE DelNetworkListFrom(grpc, files, list, rt, oc, rm, cached.result,
                                <<CacheOp("get", "none", Exists(files, list.Name, rt))>>,
                                Len(list.Plugins), <<>>)

\* DelNetworkList
DelNetworkList(grpc, files, list, rt, oc, rm) ==
    LET gate == GreaterThanOrEqualTo(list.CNIVersion, V040)
        cached == getCachedResult(files, list.Name, list.CNIVersion, rt)
    IN  IF gate.err # "none"
        THEN Returned(<<>>, <<>>, NoResult, gate.err, FALSE, files)
        ELSE IF gate.gtet /\ cached.err # "none"
        THEN Returned(<<>>, <<CacheOp("get", cached.err, Exists(files, list.Name, rt))>>,
                      NoResult, "cache_get_failed", FALSE, files)
        ELSE DelNetworkListFrom(grpc, files, list, rt, oc, rm,
                                IF gate.gtet THEN cached.result ELSE NoResult,
                                IF gate.gtet
                                THEN <<CacheOp("get", "none", Exists(files, list.Name, rt))>>
                                ELSE <<>>,
                                Len(list.Plugins), <<>>)

----------------------------------------------------------------------------
(* The state machine.                                                      *)

NoList == [Name |-> <<>>, CNIVersion |-> BadVersion, DisableCheck |-> FALSE,
           Plugins |-> <<>>]
NoRuntime == [ContainerID |-> <<>>, NetNS |-> <<>>, IfName |-> <<>>,
              Args |-> <<>>, CapabilityArgs |-> {}, CacheDir |-> <<>>]

VARIABLES
    ClientgRPC,  \* CNIConfig.ClientgRPC: the transport of this driver
    cache,       \* the files under the cache root, by path
    running,     \* FALSE once log.Fatalf has ended the process
    call,        \* the last call made: its arguments and what it did
    inflight     \* the AddNetworkList calls made at the same time, by caller

vars == <<ClientgRPC, cache, running, call, inflight>>

\* The callers that call the driver at the same time
Callers == {"A", "B"}

\* A caller that is not in a call
Idle == [pc |-> "idle", list |-> NoList, rt |-> NoRuntime, result |-> NoResult,
         err |-> "none", wrote |-> 0]

Init ==
    /\ ClientgRPC \in BOOLEAN
    /\ cache = [p \in Paths |-> NoFile]
    /\ running = TRUE
    /\ call = [op |-> "none", list |-> NoList, rt |-> NoRuntime, log |-> <<>>,
               ops |-> <<>>, result |-> NoResult, err |-> "none"]
    /\ inflight = [p \in Callers |-> Idle]

\* A call returns (or ends the process): the cache and the record of the call
Finish(op, list, rt, ret) ==
    \E r \in {ret} :
    /\ cache' = r.files
    /\ running' = ~r.exited
    /\ call' = [op |-> op, list |-> list, rt |-> rt, log |-> r.log, ops |-> r.ops,
                result |-> r.result, err |-> r.err]
    /\ UNCHANGED <<ClientgRPC, inflight>>

CallAddNetworkList ==
    /\ running
    /\ \E list \in Lists({FALSE}), rt \in Runtimes :
         \E oc \in Chains(AddOutcomes, Len(list.Plugins), FailKinds, Ok("r1")) :
            \E wr \in FsOutcomes(oc) :
               Finish("ADD", list, rt,
                      AddNetworkList(ClientgRPC, cache, list, rt, oc, wr))

CallCheckNetworkList ==
    /\ running
    /\ \E list \in Lists(BOOLEAN), rt \in Runtimes :
         \E oc \in Chains(Outcomes, Len(list.Plugins), StopKinds(ClientgRPC), Ok("none")) :
            Finish("CHECK", list, rt,
                   CheckNetworkList(ClientgRPC, cache, list, rt, oc))

CallDelNetworkList ==
    /\ running
    /\ \E list \in Lists({FALSE}), rt \in Runtimes :
         \E oc \in Chains(Outcomes, Len(list.Plugins), StopKinds(ClientgRPC), Ok("none")) :
            \E rm \in FsOutcomes(oc) :
               Finish("DEL", list, rt,
                      DelNetworkList(ClientgRPC, cache, list, rt, oc, rm))

Next ==
    \/ CallAddNetworkList
    \/ CallCheckNetworkList
    \/ CallDelNetworkList

Spec == Init /\ [][Next]_vars

----------------------------------------------------------------------------
(* Reading the cache on its own: GetNetworkListCachedResult over whatever  *)
(* an earlier run of the program, under any configuration, has left in the *)
(* cache directory.                                                        *)

\* The files an earlier run can have left: none, a result in any version the
\* registry can build, or bytes whose version the registry does not know.
StoredFiles ==
    {NoFile} \cup {[cniVersion |-> v, data |-> d] :
                     v \in SupportedVersions \cup {BadVersion}, d \in Payloads}

\* The lists whose cached result is asked for
StoredLists ==
    {[Name |-> n, CNIVersion |-> v, DisableCheck |-> FALSE,
      Plugins |-> [i \in 1..k |-> PluginConf(i)]] :
        n \in NetNames, v \in SupportedVersions, k \in 1..MaxPlugins}

\* GetNetworkListCachedResult(list, rt): (Result, error)
GetNetworkListCachedResult(files, list, rt) ==
    LET r == getCachedResult(files, list.Name, list.CNIVersion, rt)
    IN  Returned(<<>>, <<CacheOp("get", r.err, Exists(files, list.Name, rt))>>,
                 r.result, r.err, FALSE, files)

InitStored ==
    /\ ClientgRPC \in BOOLEAN
    /\ cache \in [Paths -> StoredFiles]
    /\ running = TRUE
    /\ call = [op |-> "none", list |-> NoList, rt |-> NoRuntime, log |-> <<>>,
               ops |-> <<>>, result |-> NoResult, err |-> "none"]
    /\ inflight = [p \in Callers |-> Idle]

CallGetNetworkListCachedResult ==
    /\ running
    /\ \E list \in StoredLists, rt \in Runtimes :
          Finish("GET", list, rt, GetNetworkListCachedResult(cache, list, rt))

NextStored == CallGetNetworkListCachedResult

SpecStored == InitStored /\ [][NextStored]_vars

----------------------------------------------------------------------------
(* Validation of a list: ValidateNetworkList asks every plugin which       *)
(* versions it supports.                                                   *)

\* What the probe of one plugin finds: the plugin is not on the search path,
\* its VERSION command fails, or it advertises a list of supported versions.
Probes ==
    {[kind |-> k, versions |-> {}] : k \in {"not_found", "version_failed"}}
    \cup {[kind |-> "ok", versions |-> vs] : vs \in {{V031}, {V040}, {V031, V040}}}

\* validatePlugin without the comparison with the expected version
validatePlugin_AnyVersion(pluginName, expectedVersion, probe) ==
    [plugin |-> pluginName,
     err |-> IF probe.kind # "ok" THEN probe.kind ELSE "none"]

\* validatePlugin(pluginName, expectedVersion): error
validatePlugin(pluginName, expectedVersion, probe) ==
    [plugin |-> pluginName,
     err |-> IF probe.kind # "ok" THEN probe.kind
             ELSE IF \E vers \in probe.versions : vers = expectedVersion THEN "none"
             ELSE "version_not_supported"]

\* ValidateNetworkList(list): ([]string, error); the capabilities are a set,
\* errs is empty for a nil error
ValidateNetworkList(list, probes) ==
    LET version == list.CNIVersion
        n == Len(list.Plugins)
        checked == [i \in 1..n |-> validatePlugin(list.Plugins[i].type, version, probes[i])]
        errs == SelectSeq(checked, LAMBDA e : e.err # "none")
        caps == {c[1] : c \in {d \in UNION {list.Plugins[i].capabilities : i \in 1..n} :
                                  d[2]}}
        log == SelectSeq([i \in 1..n |-> [cmd |-> "VERSION",
                                          type |-> list.Plugins[i].type,
                                          out |-> probes[i]]],
                         LAMBDA d : d.out.kind # "not_found")
    IN  IF Len(errs) > 0
        THEN [log |-> log, caps |-> {}, errs |-> errs]
        ELSE [log |-> log, caps |-> caps, errs |-> <<>>]

CallValidateNetworkList ==
    /\ running
    /\ \E list \in Lists({FALSE}) :
          \E probes \in [1..Len(list.Plugins) -> Probes] :
             \E r \in {ValidateNetworkList(list, probes)} :
                call' = [op |-> "VALIDATE", list |-> list, probes |-> probes,
                         log |-> r.log, caps |-> r.caps, errs |-> r.errs]
    /\ UNCHANGED <<ClientgRPC, cache, running, inflight>>

NextValidate == CallValidateNetworkList

SpecValidate == Init /\ [][NextValidate]_vars

----------------------------------------------------------------------------
(* The single-plugin forms: AddNetwork, CheckNetwork and DelNetwork on one *)
(* plugin configuration, whose own name and cniVersion are the network's.  *)

\* NetworkConfig: the configurations of a single plugin
Networks ==
    {[PluginConf(i) EXCEPT !.name = n, !.cniVersion = v] :
        i \in {1, 2}, n \in NetNames, v \in ListVersions \cup {BadVersion}}

\* AddNetwork that does not write the cache
AddNetwork_NoCacheWrite(grpc, files, net, rt, out, wr) ==
    LET r == addNetwork(grpc, net.name, net.cniVersion, net, NoResult, rt, out)
    IN  Returned(r.log, <<>>, r.result, r.err, r.exited, files)

\* AddNetwork
AddNetwork(grpc, files, net, rt, out, wr) ==
    LET r == addNetwork(grpc, net.name, net.cniVersion, net, NoResult, rt, out)
        set == setCachedResult(files, r.result, net.name, rt, wr)
        found == Exists(files, net.name, rt)
    IN  IF r.err # "none"
        THEN Returned(r.log, <<>>, NoResult, r.err, r.exited, files)
        ELSE IF set.err # "none"
        THEN Returned(r.log, <<CacheOp("set", set.err, found)>>, NoResult,
                      "cache_set_failed", FALSE, set.files)
        ELSE Returned(r.log, <<CacheOp("set", "none", found)>>, r.result, "none",
                      FALSE, set.files)

\* CheckNetwork
CheckNetwork(grpc, files, net, rt, out) ==
    LET gate == GreaterThanOrEqualTo(net.cniVersion, V040)
        cachedResult == getCachedResult(files, net.name, net.cniVersion, rt)
        get == <<CacheOp("get", cachedResult.err, Exists(files, net.name, rt))>>
        r == checkNetwork(grpc, net.name, net.cniVersion, net, cachedResult.result,
                          rt, out)
    IN  IF gate.err # "none"
        THEN Returned(<<>>, <<>>, NoResult, gate.err, FALSE, files)
        ELSE IF ~gate.gtet
        THEN Returned(<<>>, <<>>, NoResult, "check_unsupported", FALSE, files)
        ELSE IF cachedResult.err # "none"
        THEN Returned(<<>>, get, NoResult, "cache_get_failed", FALSE, files)
        ELSE Returned(r.log, get, NoResult, r.err, r.exited, files)

\* DelNetwork
DelNetwork(grpc, files, net, rt, out, rm) ==
    LET gate == GreaterThanOrEqualTo(net.cniVersion, V040)
        cached == getCachedResult(files, net.name, net.cniVersion, rt)
        found == Exists(files, net.name, rt)
        get == IF gate.gtet THEN <<CacheOp("get", cached.err, found)>> ELSE <<>>
        cachedResult == IF gate.gtet THEN cached.result ELSE NoResult
        r == delNetwork(grpc, net.name, net.cniVersion, net, cachedResult, rt, out)
        del == delCachedResult(files, net.name, rt, rm)
    IN  IF gate.err # "none"
        THEN Returned(<<>>, <<>>, NoResult, gate.err, FALSE, files)
        ELSE IF gate.gtet /\ cached.err # "none"
        THEN Returned(<<>>, get, NoResult, "cache_get_failed", FALSE, files)
        ELSE IF r.err # "none"
        THEN Returned(r.log, get, NoResult, r.err, r.exited, files)
        ELSE Returned(r.log, Append(get, CacheOp("del", del.err, found)), NoResult,
                      "none", FALSE, del.files)

\* A call on a single plugin returns (or ends the process); what the plugin
\* and the file system did during the call is kept with it
FinishNetwork(op, net, rt, out, fs, ret) ==
    \E r \in {ret} :
    /\ cache' = r.files
    /\ running' = ~r.exited
    /\ call' = [op |-> op, net |-> net, rt |-> rt, out |-> out, fs |-> fs,
                log |-> r.log, ops |-> r.ops, result |-> r.result, err |-> r.err]
    /\ UNCHANGED <<ClientgRPC, inflight>>

CallAddNetwork ==
    /\ running
    /\ \E net \in Networks, rt \in Runtimes, out \in AddOutcomes :
          \E wr \in FsOutcomes(<<out>>) :
             FinishNetwork("ADD", net, rt, out, wr,
                           AddNetwork(ClientgRPC, cache, net, rt, out, wr))

CallCheckNetwork ==
    /\ running
    /\ \E net \in Networks, rt \in Runtimes, out \in Outcomes :
          FinishNetwork("CHECK", net, rt, out, "ok",
                        CheckNetwork(ClientgRPC, cache, net, rt, out))

CallDelNetwork ==
    /\ running
    /\ \E net \in Networks, rt \in Runtimes, out \in Outcomes :
          \E rm \in FsOutcomes(<<out>>) :
             FinishNetwork("DEL", net, rt, out, rm,
                           DelNetwork(ClientgRPC, cache, net, rt, out, rm))

NextNetwork ==
    \/ CallAddNetwork
    \/ CallCheckNetwork
    \/ CallDelNetwork

SpecNetwork == Init /\ [][NextNetwork]_vars

----------------------------------------------------------------------------
(* AddNetworkList called by several callers at the same time.  The driver  *)
(* takes no lock: the steps of the calls interleave.  The plugins of a     *)
(* call are run in one step; the cache write of setCachedResult is         *)
(* ioutil.WriteFile, which opens the file truncating it and then writes    *)
(* the bytes from the start of the file, in two steps.                     *)

\* The length of the bytes of a file: results differ in length
Size(bytes) ==
    IF bytes.data \in {"nofile", "empty"} THEN 0
    ELSE IF bytes.data = "r1" THEN 1
    ELSE 2

\* The bytes of a file after data is written at its start: data, followed by
\* what the file held beyond the length of data
WriteAtStart(content, data) ==
    IF Size(content) <= Size(data) THEN data
    ELSE [cniVersion |-> data.cniVersion, data |-> "torn"]

\* AddNetworkList up to its cache write: the plugins are run
StartAddNetworkList(p) ==
    /\ running /\ inflight[p].pc = "idle"
    /\ \E list \in Lists({FALSE}), rt \in Runtimes :
         \E oc \in Chains(AddOutcomes, Len(list.Plugins), FailKinds, Ok("r1")) :
            \E r \in {AddNetworkList(ClientgRPC, cache, list, rt, oc, "ok")} :
               /\ inflight' = [inflight EXCEPT ![p] =
                     [pc |-> IF r.err = "none" THEN "walked" ELSE "returned",
                      list |-> list, rt |-> rt, result |-> r.result, err |-> r.err,
                      wrote |-> 0]]
               /\ running' = ~r.exited
    /\ UNCHANGED <<ClientgRPC, cache, call>>

\* setCachedResult, ioutil.WriteFile: the file is opened, created if it
\* does not exist and truncated
OpenCacheFile(p) ==
    /\ running /\ inflight[p].pc = "walked"
    /\ cache' = [cache EXCEPT
                   ![getResultCacheFilePath(inflight[p].list.Name, inflight[p].rt)]
                      = NoBytes]
    /\ inflight' = [inflight EXCEPT ![p].pc = "opened"]
    /\ UNCHANGED <<ClientgRPC, running, call>>

\* setCachedResult, ioutil.WriteFile: the bytes of the result are written
WriteCacheFile(p) ==
    /\ running /\ inflight[p].pc = "opened"
    /\ LET fname == getResultCacheFilePath(inflight[p].list.Name, inflight[p].rt)
       IN  cache' = [cache EXCEPT
                       ![fname] = WriteAtStart(cache[fname], inflight[p].result)]
    /\ inflight' = [inflight EXCEPT
                      ![p].pc = "written",
                      ![p].wrote = 1 + Cardinality({q \in Callers :
                                                     inflight[q].wrote > 0})]
    /\ UNCHANGED <<ClientgRPC, running, call>>

\* AddNetworkList returns its result
ReturnAddNetworkList(p) ==
    /\ running /\ inflight[p].pc = "written"
    /\ inflight' = [inflight EXCEPT ![p].pc = "returned"]
    /\ UNCHANGED <<ClientgRPC, cache, running, call>>

NextConcurrent ==
    \E p \in Callers :
        \/ StartAddNetworkList(p)
        \/ OpenCacheFile(p)
        \/ WriteCacheFile(p)
        \/ ReturnAddNetworkList(p)

SpecConcurrent == Init /\ [][NextConcurrent]_vars

----------------------------------------------------------------------------
(* Calls with a cancellation token.  The driver hands ctx to the transport *)
(* of every dispatch and never looks at it itself.  done is the number of  *)
(* dispatches that had returned when the token was cancelled; a token that *)
(* was not cancelled during the call has done beyond the cache operation.  *)

\* The transports under a token: a dispatch that is in flight when the
\* token is cancelled, or is made after that, fails as a transport failure.
WithContext(oc, done) ==
    [i \in DOMAIN oc |-> IF i > done THEN Fail("transport_error") ELSE oc[i]]

\* The tokens of a call on a list: cancelled after 0..n dispatches returned
\* (n: after the last one, before the cache operation), or not at all.
NotCancelled(list) == Len(list.Plugins) + 1
Contexts(list) == 0..NotCancelled(list)

FinishCtx(op, list, rt, done, ret) ==
    \E r \in {ret} :
    /\ cache' = r.files
    /\ running' = ~r.exited
    /\ call' = [op |-> op, list |-> list, rt |-> rt, done |-> done, log |-> r.log,
                ops |-> r.ops, result |-> r.result, err |-> r.err]
    /\ UNCHANGED <<ClientgRPC, inflight>>

CtxAddNetworkList ==
    /\ running
    /\ \E list \in Lists({FALSE}), rt \in Runtimes :
         \E done \in Contexts(list), wr \in {"ok", "fail"} :
            LET oc == WithContext([i \in 1..Len(list.Plugins) |-> Ok("r1")], done)
            IN  FinishCtx("ADD", list, rt, done,
                          AddNetworkList(ClientgRPC, cache, list, rt, oc, wr))

CtxCheckNetworkList ==
    /\ running
    /\ \E list \in Lists(BOOLEAN), rt \in Runtimes :
         \E done \in Contexts(list) :
            LET oc == WithContext([i \in 1..Len(list.Plugins) |-> Ok("none")], done)
            IN  FinishCtx("CHECK", list, rt, done,
                          CheckNetworkList(ClientgRPC, cache, list, rt, oc))

CtxDelNetworkList ==
    /\ running
    /\ \E list \in Lists({FALSE}), rt \in Runtimes :
         \E done \in Contexts(list), rm \in {"ok", "fail"} :
            LET oc == WithContext([i \in 1..Len(list.Plugins) |-> Ok("none")], done)
            IN  FinishCtx("DEL", list, rt, done,
                          DelNetworkList(ClientgRPC, cache, list, rt, oc, rm))

NextCancel ==
    \/ CtxAddNetworkList
    \/ CtxCheckNetworkList
    \/ CtxDelNetworkList

SpecCancel == Init /\ [][NextCancel]_vars

----------------------------------------------------------------------------
(* Calls on several triples under one cache root.  The names and the       *)
(* container ids are strings of one or more parts, "-" among them: "net-c" *)
(* is <<"net", "-", "c">>.                                                 *)

TripleNames == {<<"net">>, <<"net", "-", "c">>, <<"n2">>}
TripleContainers == {<<"c", "-", "1">>, <<"1">>}

TripleLists ==
    {[Name |-> n, CNIVersion |-> V040, DisableCheck |-> FALSE,
      Plugins |-> <<PluginConf(1)>>] : n \in TripleNames}

TripleRuntimes ==
    {[ContainerID |-> c, NetNS |-> <<"/ns">>, IfName |-> <<"eth0">>,
      Args |-> <<<<"K", "V">>>>, CapabilityArgs |-> {}, CacheDir |-> <<>>] :
        c \in TripleContainers}

TriplePaths == {getResultCacheFilePath(l.Name, rt) : l \in TripleLists, rt \in TripleRuntimes}

InitTriples ==
    /\ ClientgRPC \in BOOLEAN
    /\ cache = [p \in TriplePaths |-> NoFile]
    /\ running = TRUE
    /\ call = [op |-> "none", list |-> NoList, rt |-> NoRuntime, log |-> <<>>,
               ops |-> <<>>, result |-> NoResult, err |-> "none"]
    /\ inflight = [p \in Callers |-> Idle]

TripleAddNetworkList ==
    /\ running
    /\ \E list \in TripleLists, rt \in TripleRuntimes :
         \E out \in {Ok("r1"), Fail("plugin_error")} :
            Finish("ADD", list, rt,
                   AddNetworkList(ClientgRPC, cache, list, rt, <<out>>, "ok"))

TripleDelNetworkList ==
    /\ running
    /\ \E list \in TripleLists, rt \in TripleRuntimes :
         \E out \in {Ok("none"), Fail("plugin_error")} :
            Finish("DEL", list, rt,
                   DelNetworkList(ClientgRPC, cache, list, rt, <<out>>, "ok"))

NextTriples ==
    \/ TripleAddNetworkList
    \/ TripleDelNetworkList

SpecTriples == InitTriples /\ [][NextTriples]_vars

----------------------------------------------------------------------------
(* The list calls together with CheckNetwork, the CHECK of a single        *)
(* plugin, on the same cache.                                              *)

NextChecks ==
    \/ Next
    \/ CallCheckNetwork

SpecChecks == Init /\ [][NextChecks]_vars

----------------------------------------------------------------------------
(* CHECK and DEL over cache files written by an earlier run of the         *)
(* program, or of another version of it: any file may be there, one that   *)
(* cannot be decoded included.                                             *)

\* Every plugin of the list does what it is asked
AllOk(list) == [i \in 1..Len(list.Plugins) |-> Ok("none")]

StoredCheckNetworkList ==
    /\ running
    /\ \E list \in Lists(BOOLEAN), rt \in Runtimes :
          Finish("CHECK", list, rt,
                 CheckNetworkList(ClientgRPC, cache, list, rt, AllOk(list)))

StoredDelNetworkList ==
    /\ running
    /\ \E list \in Lists({FALSE}), rt \in Runtimes, rm \in {"ok", "fail"} :
          Finish("DEL", list, rt,
                 DelNetworkList(ClientgRPC, cache, list, rt, AllOk(list), rm))

NextStoredCalls ==
    \/ StoredCheckNetworkList
    \/ StoredDelNetworkList

SpecStoredCalls == InitStored /\ [][NextStoredCalls]_vars

----------------------------------------------------------------------------
(* Vocabulary of the properties.                                           *)

\* The cache path of the triple of a call
PathOf(c) == getResultCacheFilePath(c.list.Name, c.rt)

\* Two calls on the same (name, container id, if name)
SameTriple(c, d) ==
    /\ c.list.Name = d.list.Name
    /\ c.rt.ContainerID = d.rt.ContainerID
    /\ c.rt.IfName = d.rt.IfName

\* The plugins of a list in list order, and in the reverse of it
Forward(list) == [i \in 1..Len(list.Plugins) |-> list.Plugins[i].type]
Backward(list) ==
    [i \in 1..Len(list.Plugins) |-> list.Plugins[Len(list.Plugins) + 1 - i].type]

\* The plugins a call dispatched to, in the order of the dispatches
Dispatched(c) == [i \in 1..Len(c.log) |-> c.log[i].type]

IsPrefix(s, t) == Len(s) <= Len(t) /\ \A i \in 1..Len(s) : s[i] = t[i]

\* A version that parses and is 0.4.0 or higher; one that parses and is lower
Since040(v) == Len(v) = 3 /\ (v[1] > 0 \/ v[2] >= 4)
Before040(v) == Len(v) = 3 /\ ~Since040(v)

\* The plugin configuration of a list that a dispatch went to
PluginOf(list, d) == CHOOSE p \in {list.Plugins[i] : i \in DOMAIN list.Plugins} :
                        p.type = d.type

Keys(map) == {kv[1] : kv \in map}

----------------------------------------------------------------------------
(* C1.  As stated: after AddNetworkList(L) succeeded with result R, the    *)
(* DelNetworkList(L) that follows on the same triple dispatches DEL in the *)
(* reverse of the list order (all of the plugins when no DEL fails) and    *)
(* every DEL dispatch carries R as prevResult.                             *)
DelAfterAdd(versions) ==
    (/\ call.op = "ADD" /\ call.err = "none"
     /\ call'.op = "DEL" /\ call'.list = call.list /\ SameTriple(call, call')
     /\ call.list.CNIVersion \in versions)
    => /\ IsPrefix(Dispatched(call'), Backward(call'.list))
       /\ call'.err = "none" => Dispatched(call') = Backward(call'.list)
       /\ \A i \in 1..Len(call'.log) :
             /\ "prevResult" \in call'.log[i].conf.keys
             /\ call'.log[i].conf.prevResult = call.result

C2_AddThreadsPrevResult ==
    call.op = "ADD" =>
        /\ IsPrefix(Dispatched(call), Forward(call.list))
        /\ \A i \in 1..Len(call.log) :
              IF i = 1
              THEN /\ "prevResult" \notin call.log[i].conf.keys
                   /\ call.log[i].conf.prevResult = NoResult
              ELSE /\ "prevResult" \in call.log[i].conf.keys
                   /\ call.log[i - 1].out.kind = "ok"
                   /\ call.log[i].conf.prevResult =
                        [cniVersion |-> call.list.CNIVersion,
                         data |-> call.log[i - 1].out.data]

\* An ADD that stopped at its second plugin, so that the cache entry it
\* leaves is the one it found: the first plugin got no prevResult although
\* the cache held a result.
C2_Witness ==
    /\ call.op = "ADD" /\ call.err # "none" /\ Len(call.log) = 2
    /\ cache[PathOf(call)] # NoFile
    /\ "prevResult" \notin call.log[1].conf.keys
    /\ call.log[2].conf.prevResult.data = call.log[1].out.data

(* C3.  In every dispatch the keys of the injected runtimeConfig are the   *)
(* keys of the runtime's CapabilityArgs that the plugin declares true,     *)
(* with the runtime's values; the others are dropped and the dispatch is   *)
(* made all the same; there is no runtimeConfig when no key is left.       *)
C3_RuntimeConfigIsEnabledCapabilities ==
    \A i \in 1..Len(call.log) :
        LET d == call.log[i]
            enabled == {kv[1] : kv \in {c \in PluginOf(call.list, d).capabilities : c[2]}}
            want == Keys(call.rt.CapabilityArgs) \cap enabled
        IN  /\ Keys(d.conf.runtimeConfig) = want
            /\ d.conf.runtimeConfig \subseteq call.rt.CapabilityArgs
            /\ ("runtimeConfig" \in d.conf.keys) <=> (want # {})

\* A DEL of two plugins with three capability args: the first plugin gets
\* one of them (one is unknown to it, one declared false), the second none.
C3_Witness ==
    /\ call.op = "DEL" /\ Len(call.log) = 2
    /\ Cardinality(call.rt.CapabilityArgs) = 3
    /\ \E i \in 1..2 : /\ call.log[i].conf.runtimeConfig = {<<"portMappings", "pm">>}
                       /\ <<"bandwidth", FALSE>> \in call.log[i].conf.capabilities
    /\ \E i \in 1..2 : "runtimeConfig" \notin call.log[i].conf.keys

(* C4.  In every dispatch the name and cniVersion of the derived document  *)
(* are those of the list, not those of the plugin's own document.          *)
C4_NameAndVersionOfTheList ==
    \A i \in 1..Len(call.log) :
        /\ {"name", "cniVersion"} \subseteq call.log[i].conf.keys
        /\ call.log[i].conf.name = call.list.Name
        /\ call.log[i].conf.cniVersion = call.list.CNIVersion

C4_Witness ==
    /\ call.op = "CHECK" /\ Len(call.log) = 2
    /\ \A i \in 1..2 :
          /\ PluginOf(call.list, call.log[i]).name # call.list.Name
          /\ call.log[i].conf.name = call.list.Name
    /\ \E i \in 1..2 :
          /\ PluginOf(call.list, call.log[i]).cniVersion # call.list.CNIVersion
          /\ call.log[i].conf.cniVersion = call.list.CNIVersion

(* C5.  If a plugin fails during AddNetworkList, the call returns that     *)
(* plugin's error and no result, no later plugin is dispatched, no DEL is  *)
(* dispatched to the plugins that succeeded, and the cache is left as it   *)
(* was.                                                                    *)
AddStopsAtFailingPlugin ==
    call'.op = "ADD" =>
        \A i \in 1..Len(call'.log) :
            call'.log[i].out.kind = "plugin_error" =>
                /\ call'.err = "plugin_error"
                /\ call'.result = NoResult
                /\ i = Len(call'.log)
                /\ \A j \in 1..Len(call'.log) : call'.log[j].cmd = "ADD"
                /\ call'.ops = <<>>
                /\ cache' = cache

C5_AddReturnsThePluginError == [][AddStopsAtFailingPlugin]_vars

(* C6.  CheckNetworkList on a list of a version lower than 0.4.0 returns   *)
(* the version-unsupported error, reads no cache and dispatches nothing.   *)
C6_CheckGate ==
    (call.op = "CHECK" /\ Before040(call.list.CNIVersion)) =>
        /\ call.err = "check_unsupported"
        /\ call.ops = <<>>
        /\ call.log = <<>>

\* A gated CHECK on a triple that has a cached result
C6_Witness ==
    /\ call.op = "CHECK" /\ call.list.CNIVersion = V031
    /\ call.err = "check_unsupported"
    /\ cache[PathOf(call)] # NoFile

C8_DelWithoutCacheEntry ==
    [][(/\ call'.op = "DEL" /\ Since040(call'.list.CNIVersion)
        /\ cache[PathOf(call')] = NoFile)
       => /\ getCachedResult(cache, call'.list.Name, call'.list.CNIVersion, call'.rt)
               = [result |-> NoResult, err |-> "none"]
          /\ call'.ops # <<>> /\ call'.ops[1] = CacheOp("get", "none", FALSE)
          /\ call'.err \in {"none"} \cup FailKinds
          /\ IsPrefix(Dispatched(call'), Backward(call'.list))
          /\ call'.err = "none" => Dispatched(call') = Backward(call'.list)
          /\ \A i \in 1..Len(call'.log) :
                "prevResult" \notin call'.log[i].conf.keys]_vars

C8_Witness ==
    /\ call.op = "DEL" /\ call.list.CNIVersion = V040 /\ call.err = "none"
    /\ call.ops = <<CacheOp("get", "none", FALSE), CacheOp("del", "not_exist", FALSE)>>
    /\ Len(call.log) = 2 /\ Dispatched(call) = Backward(call.list)
    /\ \A i \in 1..2 : "prevResult" \notin call.log[i].conf.keys

(* C9.  If a plugin's DEL fails during DelNetworkList, the call returns    *)
(* that error at once: the plugins earlier in the list are not dispatched  *)
(* and the cache entry is not deleted.                                     *)
DelStopsAtFailingPlugin ==
    call'.op = "DEL" =>
        \A i \in 1..Len(call'.log) :
            call'.log[i].out.kind = "plugin_error" =>
                /\ call'.err = "plugin_error"
                /\ i = Len(call'.log)
                /\ cache' = cache

C9_DelReturnsThePluginError == [][DelStopsAtFailingPlugin]_vars

(* C10.  As stated: when every plugin's DEL succeeds DelNetworkList        *)
(* removes the cache entry after the last dispatch and returns success, a  *)
(* failure of the removal being ignored; after a successful ADD followed   *)
(* by a successful DEL a cache read for the triple gives no result.        *)
AllDelSucceeded(c) ==
    /\ c.op = "DEL"
    /\ Len(c.log) = Len(c.list.Plugins)
    /\ \A i \in 1..Len(c.log) : c.log[i].out.kind = "ok"

DelThenNoEntry(removed) ==
    /\ AllDelSucceeded(call') =>
          /\ call'.err = "none"
          /\ call'.ops # <<>> /\ call'.ops[Len(call'.ops)].op = "del"
          /\ \/ cache' = [cache EXCEPT ![PathOf(call')] = NoFile]
             \/ cache' = cache /\ call'.ops[Len(call'.ops)].err # "none"
    /\ (/\ call.op = "ADD" /\ call.err = "none"
        /\ call'.op = "DEL" /\ call'.err = "none" /\ SameTriple(call, call')
        /\ removed)
       => getCachedResult(cache', call'.list.Name, call'.list.CNIVersion, call'.rt)
            = [result |-> NoResult, err |-> "none"]

C10_AsStated == [][DelThenNoEntry(TRUE)]_vars

\* C10, amended: the same, the read after ADD and DEL giving no result
\* provided the removal itself did not fail (a failed removal is ignored
\* and leaves the entry).
C10_DelRemovesCacheEntry ==
    [][DelThenNoEntry(call'.ops[Len(call'.ops)].err = "none")]_vars

\* A DEL whose dispatches carried a cached result and that removed it
C10_Witness ==
    /\ AllDelSucceeded(call) /\ call.err = "none" /\ Len(call.log) = 2
    /\ \A i \in 1..2 : "prevResult" \in call.log[i].conf.keys
    /\ call.ops = <<CacheOp("get", "none", TRUE), CacheOp("del", "none", TRUE)>>
    /\ cache[PathOf(call)] = NoFile

(* C11.  When the cache read finds an entry whose stored version is the    *)
(* requested version and the conversion of that result fails, the read     *)
(* returns the stored result unchanged and no error; it reports a          *)
(* conversion error only when the conversion fails and the two versions    *)
(* differ.                                                                 *)
C11_ReadFallsBackToStoredResult ==
    (call.op = "GET" /\ cache[PathOf(call)] # NoFile
                     /\ cache[PathOf(call)].cniVersion \in SupportedVersions) =>
        LET stored == cache[PathOf(call)]
            requested == call.list.CNIVersion
            failed == GetAsVersion(stored, requested).err # "none"
        IN  /\ (failed /\ stored.cniVersion = requested)
                   => call.result = stored /\ call.err = "none"
            /\ (call.err # "none") <=> (failed /\ stored.cniVersion # requested)

(* C12.  If every plugin of AddNetworkList succeeded and the write of the  *)
(* cache entry fails, the call returns an error and no result, and the     *)
(* driver undoes nothing: every plugin was dispatched ADD, in list order,  *)
(* and no DEL was dispatched.                                              *)
C12_CacheWriteFailureIsReturned ==
    (call.op = "ADD" /\ call.ops # <<>> /\ call.ops[1].err # "none") =>
        /\ call.err = "cache_set_failed"
        /\ call.result = NoResult
        /\ Dispatched(call) = Forward(call.list)
        /\ \A i \in 1..Len(call.log) :
              call.log[i].cmd = "ADD" /\ call.log[i].out.kind = "ok"

\* An ADD over two plugins, both successful, whose cache write failed
C12_Witness ==
    /\ call.op = "ADD" /\ Len(call.log) = 2
    /\ \A i \in 1..2 : call.log[i].out.kind = "ok"
    /\ call.ops = <<CacheOp("set", "write_failed", FALSE)>>
    /\ call.err = "cache_set_failed"
    /\ cache[PathOf(call)] = NoFile

(* C13.  CheckNetworkList on a list of version 0.4.0 or higher with        *)
(* DisableCheck false reads the cache once and dispatches CHECK in list    *)
(* order, every dispatch carrying the cached result as prevResult (none    *)
(* when there is no entry); the first plugin error ends the walk and is    *)
(* returned, and the plugins after it are not dispatched.                  *)
CheckReplaysCachedResult ==
    (/\ call'.op = "CHECK" /\ Since040(call'.list.CNIVersion)
     /\ ~call'.list.DisableCheck) =>
        LET cached == getCachedResult(cache, call'.list.Name,
                                      call'.list.CNIVersion, call'.rt)
        IN  /\ Len(call'.ops) = 1 /\ call'.ops[1].op = "get"
            /\ cache' = cache
            /\ cached.err = "none" =>
                  /\ IsPrefix(Dispatched(call'), Forward(call'.list))
                  /\ call'.err = "none" => Dispatched(call') = Forward(call'.list)
                  /\ \A i \in 1..Len(call'.log) :
                        /\ call'.log[i].cmd = "CHECK"
                        /\ call'.log[i].conf.prevResult = cached.result
                        /\ ("prevResult" \in call'.log[i].conf.keys)
                              <=> (cached.result # NoResult)
                        /\ call'.log[i].out.kind = "plugin_error" =>
                              call'.err = "plugin_error" /\ i = Len(call'.log)

C13_CheckReplaysCachedResult == [][CheckReplaysCachedResult]_vars

(* C14.  CheckNetworkList on a list with DisableCheck set returns success  *)
(* without a cache read and without a dispatch when the list's version is  *)
(* 0.4.0 or higher, and fails with the version-unsupported error when it   *)
(* is lower: the version is tested first.                                  *)
C14_DisableCheckAfterTheGate ==
    (call.op = "CHECK" /\ call.list.DisableCheck) =>
        /\ call.ops = <<>> /\ call.log = <<>>
        /\ Since040(call.list.CNIVersion) => call.err = "none"
        /\ Before040(call.list.CNIVersion) => call.err = "check_unsupported"

\* A disabled CHECK on a triple that has a cached result
C14_Witness ==
    /\ call.op = "CHECK" /\ call.list.DisableCheck
    /\ call.list.CNIVersion = V040 /\ Len(call.list.Plugins) = 2
    /\ call.err = "none" /\ call.ops = <<>> /\ call.log = <<>>
    /\ cache[PathOf(call)] # NoFile

(* C15.  DelNetworkList on a list of a version lower than 0.4.0 does not   *)
(* read the cache and its DEL dispatches carry no prevResult, even when    *)
(* the triple has a cache entry; on a list of version 0.4.0 or higher the  *)
(* cached result, when there is one, is the prevResult of every DEL        *)
(* dispatch.                                                               *)
DelReadsCacheSince040 ==
    call'.op = "DEL" =>
        /\ Before040(call'.list.CNIVersion) =>
              /\ \A i \in 1..Len(call'.ops) : call'.ops[i].op # "get"
              /\ \A i \in 1..Len(call'.log) :
                    /\ "prevResult" \notin call'.log[i].conf.keys
                    /\ call'.log[i].conf.prevResult = NoResult
        /\ (Since040(call'.list.CNIVersion) /\ cache[PathOf(call')] # NoFile) =>
              LET cached == getCachedResult(cache, call'.list.Name,
                                            call'.list.CNIVersion, call'.rt)
              IN  /\ call'.ops # <<>> /\ call'.ops[1].op = "get"
                  /\ \A i \in 1..Len(call'.log) :
                        /\ "prevResult" \in call'.log[i].conf.keys
                        /\ call'.log[i].conf.prevResult = cached.result
                        /\ cached.result.data = cache[PathOf(call')].data

C15_DelReadsCacheSince040 == [][DelReadsCacheSince040]_vars

\* A DEL on a list of version 0.3.1 that found a cache entry, removed it and
\* handed no prevResult to its two plugins
C15_Witness ==
    /\ call.op = "DEL" /\ call.list.CNIVersion = V031 /\ Len(call.log) = 2
    /\ call.ops = <<CacheOp("del", "none", TRUE)>>
    /\ \A i \in 1..2 : "prevResult" \notin call.log[i].conf.keys

(* C16.  ValidateNetworkList probes every plugin of the list that is on    *)
(* the search path, whatever the plugins before it did.  It returns the    *)
(* set of the capabilities some plugin declares true exactly when every    *)
(* plugin advertises the list's CNIVersion among its supported versions;   *)
(* otherwise it returns no capability and an error made of the error of    *)
(* each failing plugin, in list order.                                     *)
C16_ValidateChecksEveryPlugin ==
    call.op = "VALIDATE" =>
        LET list == call.list
            n == Len(list.Plugins)
            supports(i) == /\ call.probes[i].kind = "ok"
                           /\ list.CNIVersion \in call.probes[i].versions
            failing == {i \in 1..n : ~supports(i)}
            enabled == {c \in {"portMappings", "ipRanges", "bandwidth"} :
                          \E i \in 1..n : <<c, TRUE>> \in list.Plugins[i].capabilities}
        IN  /\ {call.log[i].type : i \in 1..Len(call.log)}
                 = {list.Plugins[i].type : i \in {j \in 1..n :
                                                    call.probes[j].kind # "not_found"}}
            /\ (call.errs = <<>>) <=> (failing = {})
            /\ failing = {} => call.caps = enabled
            /\ failing # {} =>
                  /\ call.caps = {}
                  /\ Len(call.errs) = Cardinality(failing)
                  /\ {e.plugin : e \in {call.errs[i] : i \in 1..Len(call.errs)}}
                       = {list.Plugins[i].type : i \in failing}
                  /\ \A i \in 1..Len(call.errs) : call.errs[i].err # "none"

\* A validation where the first plugin does not support the list's version
\* and the second, checked all the same, is not on the search path
C16_Witness ==
    /\ call.op = "VALIDATE" /\ Len(call.list.Plugins) = 2
    /\ call.list.CNIVersion = V040
    /\ call.probes[1] = [kind |-> "ok", versions |-> {V031}]
    /\ call.errs = <<[plugin |-> call.list.Plugins[1].type,
                      err |-> "version_not_supported"],
                     [plugin |-> call.list.Plugins[2].type, err |-> "not_found"]>>
    /\ call.caps = {}

(* C17.  AddNetwork, CheckNetwork and DelNetwork on a plugin configuration *)
(* do what AddNetworkList, CheckNetworkList and DelNetworkList do on the   *)
(* list of that one plugin, named and versioned as the plugin declares and *)
(* with DisableCheck false: the same dispatches, the same cache reads,     *)
(* writes and removals, the same result or error.                          *)
OneElementList(net) ==
    [Name |-> net.name, CNIVersion |-> net.cniVersion, DisableCheck |-> FALSE,
     Plugins |-> <<net>>]

SameAsListForm(l) ==
    /\ call'.log = l.log
    /\ call'.ops = l.ops
    /\ call'.result = l.result
    /\ call'.err = l.err
    /\ running' = ~l.exited
    /\ cache' = l.files

SingleFormIsListForm ==
    LET list == OneElementList(call'.net)
        oc == <<call'.out>>
    IN  /\ call'.op = "ADD" =>
              SameAsListForm(AddNetworkList(ClientgRPC, cache, list, call'.rt, oc,
                                            call'.fs))
        /\ call'.op = "CHECK" =>
              SameAsListForm(CheckNetworkList(ClientgRPC, cache, list, call'.rt, oc))
        /\ call'.op = "DEL" =>
              SameAsListForm(DelNetworkList(ClientgRPC, cache, list, call'.rt, oc,
                                            call'.fs))

C17_SingleFormIsListForm == [][SingleFormIsListForm]_vars

\* A DelNetwork that handed the result cached by an AddNetwork to the plugin
\* and removed the entry
C17_Witness ==
    /\ call.op = "DEL" /\ call.net.cniVersion = V040 /\ call.err = "none"
    /\ call.ops = <<CacheOp("get", "none", TRUE), CacheOp("del", "none", TRUE)>>
    /\ Len(call.log) = 1 /\ call.log[1].conf.prevResult.data = "r2"
    /\ call.log[1].conf.name = call.net.name
    /\ cache[getResultCacheFilePath(call.net.name, call.rt)] = NoFile

(* C18.  When two AddNetworkList calls on one triple run at the same time  *)
(* and both succeed, then once both have returned the cache entry is the   *)
(* complete result of the call that wrote the cache last: it is not a      *)
(* mixture of the two results and it is not absent.                        *)
C18_LastWriterWins ==
    \A p, q \in Callers :
        (/\ p # q
         /\ inflight[p].pc = "returned" /\ inflight[p].err = "none"
         /\ inflight[q].pc = "returned" /\ inflight[q].err = "none"
         /\ SameTriple(inflight[p], inflight[q])
         /\ inflight[p].wrote > inflight[q].wrote) =>
            cache[PathOf(inflight[p])] = inflight[p].result

(* C19.  Under both transports a dispatch carries the runtime's container  *)
(* id, network namespace, interface name and joined argument string: the   *)
(* request of ADD, CHECK and DEL over gRPC has the values the exec         *)
(* transport passes for the same call.                                     *)
C19_SameRuntimeInputsInBothTransports ==
    \A i \in 1..Len(call.log) :
        LET req == call.log[i].req
            exec == AsEnv(args(call.log[i].cmd, call.rt))
        IN  /\ req.ContainerID = call.rt.ContainerID
            /\ req.NetNS = call.rt.NetNS
            /\ req.IfName = call.rt.IfName
            /\ req.CniArgs = <<"K", "=", "V", ";">>
            /\ <<req.ContainerID, req.NetNS, req.IfName, req.CniArgs>>
                 = <<exec.ContainerID, exec.NetNS, exec.IfName, exec.CniArgs>>

(* C20.  The capability args that go with a dispatch over gRPC are the     *)
(* runtime's capability args whose key the plugin declares true: the set   *)
(* that is injected as runtimeConfig in the derived document.              *)
C20_CapArgsAreFiltered ==
    \A i \in 1..Len(call.log) :
        call.log[i].req.transport = "grpc" =>
            /\ call.log[i].req.CapArgs = call.log[i].conf.runtimeConfig
            /\ \A kv \in call.log[i].req.CapArgs :
                  <<kv[1], TRUE>> \in PluginOf(call.list, call.log[i]).capabilities

(* C21.  When a call of CNIadd, CNIcheck or CNIdel fails at the transport  *)
(* level, the error comes back to the driver, which stops the chain and    *)
(* returns the error without a second try; the process keeps running, so   *)
(* that the caller can go on to call DEL.                                  *)
C21_RpcErrorIsReturned ==
    \A i \in 1..Len(call.log) :
        (ClientgRPC /\ call.log[i].out.kind = "transport_error") =>
            /\ call.err = "transport_error"
            /\ i = Len(call.log)
            /\ running

(* C22.  A plugin that fails a CHECK or a DEL makes the call return an     *)
(* error and stops the chain, under the gRPC transport (where the failure  *)
(* is the Error string of the reply) as under the exec transport; a DEL in *)
(* which a plugin reported an error does not remove the cache entry.       *)
PluginFailureStopsCheckAndDel ==
    call'.op \in {"CHECK", "DEL"} =>
        \A i \in 1..Len(call'.log) :
            call'.log[i].out.kind = "plugin_error" =>
                /\ call'.err # "none"
                /\ i = Len(call'.log)
                /\ \A k \in 1..Len(call'.ops) : call'.ops[k].op # "del"
                /\ cache'[PathOf(call')] = cache[PathOf(call')]

C22_PluginFailureStopsCheckAndDel == [][PluginFailureStopsCheckAndDel]_vars

(* C23.  Once the cancellation token of an ADD, CHECK or DEL call has been *)
(* cancelled, no further plugin is dispatched: the call returns an error,  *)
(* an ADD does not write the cache entry, a DEL does not remove it, and    *)
(* nothing is rolled back.                                                 *)
Cancelled(c) == c.op \in {"ADD", "CHECK", "DEL"} /\ c.done < NotCancelled(c.list)

C23_NothingAfterCancellation ==
    Cancelled(call) =>
        /\ Len(call.log) <= call.done + 1
        /\ \A i \in 1..Len(call.log) : call.log[i].cmd = call.op
        /\ running /\ call.err # "none"
        /\ \A k \in 1..Len(call.ops) : call.ops[k].op \notin {"set", "del"}

(* C24.  The cache entry is determined by the triple: an ADD or a DEL on   *)
(* one (network name, container id, interface name) never creates, writes  *)
(* over or removes the cache entry of a different triple under the same    *)
(* cache root.                                                             *)
Triples == {<<l.Name, rt.ContainerID, rt.IfName>> : l \in TripleLists, rt \in TripleRuntimes}
TripleOf(c) == <<c.list.Name, c.rt.ContainerID, c.rt.IfName>>

\* "${network_name}-${container_id}-${if_name}" and the file of that name
JoinedName(t) == t[1] \o <<"-">> \o t[2] \o <<"-">> \o t[3]
EntryOf(t) == CacheDir \o <<"/results/">> \o JoinedName(t)
DashFree(t) == \A k \in 1..3 : \A i \in 1..Len(t[k]) : t[k][i] # "-"

\* As stated: for every other triple.  It fails for two triples whose
\* joined names are the same string.
OtherTriplesUntouched ==
    call'.op \in {"ADD", "DEL"} =>
        \A u \in Triples \ {TripleOf(call')} :
            cache'[EntryOf(u)] = cache[EntryOf(u)]

OtherNamesUntouched ==
    call'.op \in {"ADD", "DEL"} =>
        \A u \in Triples \ {TripleOf(call')} :
            (\/ JoinedName(u) # JoinedName(TripleOf(call'))
             \/ DashFree(u) /\ DashFree(TripleOf(call'))) =>
                /\ EntryOf(u) \in DOMAIN cache
                /\ cache'[EntryOf(u)] = cache[EntryOf(u)]

CheckLeavesCache ==
    call'.op = "CHECK" =>
        /\ cache' = cache
        /\ \A k \in 1..Len(call'.ops) : call'.ops[k].op = "get"

C25_CheckLeavesCache == [][CheckLeavesCache]_vars

\* C25, witness: a CHECK in which a plugin failed, and one in which every
\* plugin succeeded, with the entry the ADD stored still in the cache.
C25_Witness ==
    /\ call.op = "CHECK"
    /\ Len(call.log) >= 1
    /\ call.err \in {"none", "plugin_error"}
    /\ \E p \in Paths : cache[p] # NoFile /\ cache[p].data \in Payloads
    /\ \A i \in 1..Len(call.log) : call.log[i].conf.prevResult # NoResult

(* C26.  When the cache entry of the triple exists and cannot be decoded   *)
(* (its version cannot be parsed or is unsupported, or it cannot be        *)
(* converted to the different version of the list), CheckNetworkList and   *)
(* DelNetworkList on a list of version 0.4.0 or later return a cache error *)
(* and dispatch no plugin, and DelNetworkList leaves the entry where it    *)
(* is, so that the same DEL again fails in the same way.                   *)
Undecodable(file, v) ==
    /\ file # NoFile
    /\ \/ file.cniVersion \notin SupportedVersions
       \/ file.cniVersion # v /\ <<file.cniVersion, v>> \notin Conversions

OnUndecodableEntry(c, files) ==
    /\ c.op \in {"CHECK", "DEL"}
    /\ Since040(c.list.CNIVersion)
    /\ Undecodable(files[PathOf(c)], c.list.CNIVersion)

CacheErrorAndNothingElse ==
    /\ call'.err = "cache_get_failed"
    /\ call'.log = <<>>
    /\ Len(call'.ops) = 1 /\ call'.ops[1].op = "get" /\ call'.ops[1].err # "none"
    /\ cache' = cache
    /\ call'.op = "DEL" =>
          \A rm \in {"ok", "fail"} :
             DelNetworkList(ClientgRPC, cache', call'.list, call'.rt,
                            AllOk(call'.list), rm).err = "cache_get_failed"

\* As stated: for every list of version 0.4.0 or later.  It fails for a
\* CHECK on a list with disable_check, which returns success before the
\* cache is read.
C26_AsStated ==
    [][OnUndecodableEntry(call', cache) => CacheErrorAndNothingElse]_vars

\* C26, amended: CheckNetworkList when disable_check is not set, and
\* DelNetworkList.
C26_UndecodableEntryStopsTheCall ==
    [][(OnUndecodableEntry(call', cache) /\ ~call'.list.DisableCheck)
          => CacheErrorAndNothingElse]_vars

\* C26, witness: a DEL on a list of version 0.4.0 found an entry of a
\* version that does not convert to it, returned the cache error, and the
\* entry is still there.
C26_Witness ==
    /\ OnUndecodableEntry(call, cache)
    /\ call.op = "DEL"
    /\ cache[PathOf(call)].cniVersion = V020
    /\ call.err = "cache_get_failed"
    /\ call.log = <<>>

====
